---- MODULE Spec2Model ----
(***************************************************************************)
(* A model of the rtiow-r path tracer: src/src/math.rs (vector algebra),   *)
(* src/src/trace.rs (intersection, scattering, integrator) and             *)
(* src/src/main.rs (tiled parallel sampler, frame reassembly, output).     *)
(*                                                                         *)
(* Float (f64, math.rs:5) is modelled as a saturating fixed-point number:  *)
(* the integer n stands for n / Scale, every operation rounds to the       *)
(* nearest representable value, a result beyond MaxFinite becomes an       *)
(* infinity, and NaN is a separate value that every comparison rejects.    *)
(* Signed zero is not modelled (-0.0 is identified with 0.0).              *)
(***************************************************************************)
EXTENDS Integers, Sequences, FiniteSets, TLC

VARIABLES
    pc,          \* position of the modelled program
    ray,         \* the ray handed to hit / get_ray_color
    t_min,       \* Hittable::hit argument
    t_max,       \* Hittable::hit argument
    hittables,   \* HittableCollection.hittables (the world)
    out,         \* the value returned by the last call
    depth,       \* get_ray_color: the depth argument of the innermost call
    frames,      \* get_ray_color: the callers waiting for the recursive result
    world_hit,   \* get_ray_color: what world.hit returned to the innermost call
    color,       \* get_ray_color: the value being returned
    counts,      \* number of world.hit and scatter calls made so far
    draws,       \* the random draws consumed so far, one entry per scatter call
    start,       \* the arguments of the outermost get_ray_color call
    scat,        \* the last Material::scatter call: its arguments and result
    dims,        \* IMAGE_WIDTH, IMAGE_HEIGHT, TILE_WIDTH, TILE_HEIGHT
    seed,        \* selects the values random_float() returns per pixel and sample
    step_idx,    \* main: the frame being rendered
    tiles,       \* main: per tile_idx, the state of the closure of the parallel map
    tile_results,\* main: the collected Vec of (tile_idx, tile_buffer)
    next_result, \* main: position of the reassembly loop in tile_results
    frame_buffer,\* main: frame_buffer[j][i]
    writes,      \* number of assignments made to each frame_buffer slot
    output       \* the pixels written to the output file of the last frame

hitVars == <<t_min, t_max, out>>
colorVars == <<depth, frames, world_hit, color, counts, draws, start, scat>>
tileVars == <<dims, seed, step_idx, tiles, tile_results, next_result, frame_buffer,
              writes, output>>
vars == <<pc, ray, hittables, hitVars, colorVars, tileVars>>

----------------------------------------------------------------------------
(* Float                                                                   *)

Scale == 1000
MaxFinite == 40000

PInf == MaxFinite + 1
NInf == -PInf
NaN == MaxFinite + 2

IsNaN(x) == x = NaN
IsFinite(x) == x # NaN /\ x # PInf /\ x # NInf

Abs(n) == IF n < 0 THEN -n ELSE n
Sign(n) == IF n < 0 THEN -1 ELSE IF n > 0 THEN 1 ELSE 0

\* overflow of a finite result to an infinity
Saturate(n) == IF n > MaxFinite THEN PInf ELSE IF n < -MaxFinite THEN NInf ELSE n

\* n / d rounded to the nearest integer (d > 0), halves away from zero
RoundDiv(n, d) == Sign(n) * ((2 * Abs(n) + d) \div (2 * d))

FNeg(x) == IF x = NaN THEN NaN ELSE -x

FAdd(x, y) ==
    IF x = NaN \/ y = NaN THEN NaN
    ELSE IF x = PInf THEN (IF y = NInf THEN NaN ELSE PInf)
    ELSE IF x = NInf THEN (IF y = PInf THEN NaN ELSE NInf)
    ELSE IF y = PInf \/ y = NInf THEN y
    ELSE Saturate(x + y)

FSub(x, y) == FAdd(x, FNeg(y))

FMul(x, y) ==
    IF x = NaN \/ y = NaN THEN NaN
    ELSE IF ~IsFinite(x) \/ ~IsFinite(y)
         THEN (IF x = 0 \/ y = 0 THEN NaN
               ELSE IF Sign(x) * Sign(y) > 0 THEN PInf ELSE NInf)
    ELSE Saturate(RoundDiv(x * y, Scale))

FDiv(x, y) ==
    IF x = NaN \/ y = NaN THEN NaN
    ELSE IF ~IsFinite(y) THEN (IF IsFinite(x) THEN 0 ELSE NaN)
    ELSE IF ~IsFinite(x) THEN (IF Sign(x) * Sign(y) >= 0 THEN x ELSE -x)
    ELSE IF y = 0 THEN (IF x = 0 THEN NaN ELSE IF x > 0 THEN PInf ELSE NInf)
    ELSE Saturate(Sign(y) * RoundDiv(x * Scale, Abs(y)))

\* the largest r in lo..hi with r * r <= n (lo * lo <= n < (hi + 1)^2)
RECURSIVE ISqrt(_, _, _)
ISqrt(n, lo, hi) ==
    IF lo >= hi THEN lo
    ELSE LET mid == (lo + hi + 1) \div 2
         IN  IF mid * mid <= n THEN ISqrt(n, mid, hi) ELSE ISqrt(n, lo, mid - 1)

FSqrt(x) ==
    IF x = NaN \/ x = NInf THEN NaN
    ELSE IF x = PInf THEN PInf
    ELSE IF x < 0 THEN NaN
    ELSE ISqrt(x * Scale, 0, MaxFinite)

\* the comparison operators of f64: false as soon as an operand is NaN
FLt(x, y) == x # NaN /\ y # NaN /\ x < y
FGt(x, y) == FLt(y, x)
FLe(x, y) == x # NaN /\ y # NaN /\ x <= y

\* f64::partial_cmp
partial_cmp(x, y) ==
    IF x = NaN \/ y = NaN THEN "None"
    ELSE IF x < y THEN "Less" ELSE IF x > y THEN "Greater" ELSE "Equal"

\* f64::min: the other operand when one is NaN
FMin(x, y) == IF x = NaN THEN y ELSE IF y = NaN THEN x ELSE IF x < y THEN x ELSE y

\* the number k as a Float
F(k) == k * Scale

----------------------------------------------------------------------------
(* Vec3 and Ray (math.rs)                                                  *)

Vec3_new(e0, e1, e2) == <<e0, e1, e2>>

Vec3_add(u, v) == <<FAdd(u[1], v[1]), FAdd(u[2], v[2]), FAdd(u[3], v[3])>>
Vec3_sub(u, v) == <<FSub(u[1], v[1]), FSub(u[2], v[2]), FSub(u[3], v[3])>>
Vec3_mul_float(u, t) == <<FMul(u[1], t), FMul(u[2], t), FMul(u[3], t)>>
Vec3_mul(u, v) == <<FMul(u[1], v[1]), FMul(u[2], v[2]), FMul(u[3], v[3])>>
Vec3_div(u, t) == Vec3_mul_float(u, FDiv(F(1), t))
Vec3_neg(u) == <<FNeg(u[1]), FNeg(u[2]), FNeg(u[3])>>

length_squared(u) ==
    FAdd(FAdd(FMul(u[1], u[1]), FMul(u[2], u[2])), FMul(u[3], u[3]))
length(u) == FSqrt(length_squared(u))

Ray_at(r, t) == Vec3_add(r.origin, Vec3_mul_float(r.direction, t))

to_unit_vector(v) == Vec3_div(v, length(v))

dot_product(u, v) ==
    FAdd(FAdd(FMul(u[1], v[1]), FMul(u[2], v[2])), FMul(u[3], v[3]))

is_in_range_accepts_nan(t, lo, hi) == ~FLe(hi, t) /\ ~FLe(t, lo)

is_in_range(t, lo, hi) == FLt(t, hi) /\ FGt(t, lo)

----------------------------------------------------------------------------
(* Materials, HitRecord, Sphere (trace.rs)                                 *)

BLACK == Vec3_new(F(0), F(0), F(0))
WHITE == Vec3_new(F(1), F(1), F(1))

\* the three Material implementations, as one tagged record
LambertianMaterial(albedo) ==
    [kind |-> "Lambertian", albedo |-> albedo, fuzziness |-> 0, ref_idx |-> 0]
MetalMaterial(albedo, fuzziness) ==
    [kind |-> "Metal", albedo |-> albedo, fuzziness |-> fuzziness, ref_idx |-> 0]

\* Option::None, and the Option<HitRecord> that holds a record
None == [some |-> FALSE]

set_face_normal_keeps_outward(r, outward_normal) ==
    [front_face |-> FLt(dot_product(r.direction, outward_normal), F(0)),
     normal |-> outward_normal]

set_face_normal(r, outward_normal) ==
    LET front_face == FLt(dot_product(r.direction, outward_normal), F(0))
    IN  [front_face |-> front_face,
         normal |-> IF front_face THEN outward_normal ELSE Vec3_neg(outward_normal)]

HitRecord_from_hit(point, r, t, outward_normal, material) ==
    LET f == set_face_normal(r, outward_normal)
    IN  [some |-> TRUE, point |-> point, normal |-> f.normal, t |-> t,
         front_face |-> f.front_face, material |-> material]

Sphere_new(center, radius, material) ==
    [center |-> center, radius |-> radius, material |-> material]

Sphere_calc_hit(s, t, r) ==
    LET point == Ray_at(r, t)
        outward_normal == Vec3_div(Vec3_sub(point, s.center), s.radius)
    IN  HitRecord_from_hit(point, r, t, outward_normal, s.material)

\* the quadratic of Sphere::hit
Sphere_a(s, r) == length_squared(r.direction)
Sphere_half_b(s, r) == dot_product(Vec3_sub(r.origin, s.center), r.direction)
Sphere_c(s, r) ==
    FSub(length_squared(Vec3_sub(r.origin, s.center)), FMul(s.radius, s.radius))
Sphere_discriminant(s, r) ==
    FSub(FMul(Sphere_half_b(s, r), Sphere_half_b(s, r)),
         FMul(Sphere_a(s, r), Sphere_c(s, r)))
Sphere_t_root1(s, r) ==
    FDiv(FSub(FNeg(Sphere_half_b(s, r)), FSqrt(Sphere_discriminant(s, r))),
         Sphere_a(s, r))
Sphere_t_root2(s, r) ==
    FDiv(FAdd(FNeg(Sphere_half_b(s, r)), FSqrt(Sphere_discriminant(s, r))),
         Sphere_a(s, r))

Sphere_hit_far_root_first(s, r, tmin, tmax) ==
    LET ord == partial_cmp(Sphere_discriminant(s, r), F(0))
        t_root1 == Sphere_t_root1(s, r)
        t_root2 == Sphere_t_root2(s, r)
    IN  IF ord = "Less" THEN None
        ELSE IF ord = "None" THEN None
        ELSE IF is_in_range(t_root2, tmin, tmax) THEN Sphere_calc_hit(s, t_root2, r)
        ELSE IF is_in_range(t_root1, tmin, tmax) THEN Sphere_calc_hit(s, t_root1, r)
        ELSE None

Sphere_hit(s, r, tmin, tmax) ==
    LET ord == partial_cmp(Sphere_discriminant(s, r), F(0))
        t_root1 == Sphere_t_root1(s, r)
        t_root2 == Sphere_t_root2(s, r)
    IN  IF ord = "Less" THEN None
        ELSE IF ord = "None" THEN None
        ELSE IF is_in_range(t_root1, tmin, tmax) THEN Sphere_calc_hit(s, t_root1, r)
        ELSE IF is_in_range(t_root2, tmin, tmax) THEN Sphere_calc_hit(s, t_root2, r)
        ELSE None

----------------------------------------------------------------------------
(* HittableCollection (trace.rs)                                           *)

\* the for loop of HittableCollection::hit from member i on
RECURSIVE hit_loop(_, _, _, _, _, _)
hit_loop(hs, i, r, tmin, closest_hit_t, closest_hit) ==
    IF i > Len(hs) THEN closest_hit
    ELSE LET hit == Sphere_hit(hs[i], r, tmin, closest_hit_t)
         IN  IF hit.some
             THEN hit_loop(hs, i + 1, r, tmin, hit.t, hit)
             ELSE hit_loop(hs, i + 1, r, tmin, closest_hit_t, closest_hit)

\* the loop with the far clip left at t_max for every member
RECURSIVE hit_loop_no_shrink(_, _, _, _, _, _)
hit_loop_no_shrink(hs, i, r, tmin, tmax, closest_hit) ==
    IF i > Len(hs) THEN closest_hit
    ELSE LET hit == Sphere_hit(hs[i], r, tmin, tmax)
         IN  hit_loop_no_shrink(hs, i + 1, r, tmin, tmax,
                                IF hit.some THEN hit ELSE closest_hit)

HittableCollection_hit_no_shrink(hs, r, tmin, tmax) ==
    hit_loop_no_shrink(hs, 1, r, tmin, tmax, None)

HittableCollection_hit(hs, r, tmin, tmax) == hit_loop(hs, 1, r, tmin, tmax, None)

----------------------------------------------------------------------------
(* Intersection queries: inputs drawn from bounded sets, then one call of  *)
(* Sphere::hit on a member or of HittableCollection::hit on the collection *)

MaxMembers == 2

V(x, y, z) == Vec3_new(F(x), F(y), F(z))
GREY == Vec3_new(500, 500, 500)

HitOrigins == {V(-3, 0, 0), V(0, 0, 0), V(-3, 1, 0), <<NaN, F(0), F(0)>>}
HitDirections == {V(1, 0, 0), V(2, 0, 0), V(0, 0, 0), V(3, 0, 0)}
HitTMins == {1, F(2), NaN}
HitTMaxs == {PInf, F(4), F(2)}
HitSpheres ==
    { Sphere_new(V(0, 0, 0), F(1), LambertianMaterial(GREY)),
      Sphere_new(V(0, 0, 0), F(2), LambertianMaterial(GREY)),
      Sphere_new(V(3, 0, 0), F(-1), LambertianMaterial(GREY)),
      Sphere_new(V(0, 2, 0), F(1), LambertianMaterial(GREY)) }

SeqsUpTo(S, n) == UNION {[1..k -> S] : k \in 0..n}

InitHit ==
    /\ pc = "ready"
    /\ ray \in [origin : HitOrigins, direction : HitDirections]
    /\ t_min \in HitTMins
    /\ t_max \in HitTMaxs
    /\ hittables \in SeqsUpTo(HitSpheres, MaxMembers)
    /\ out = [op |-> "none"]
    /\ depth = 0
    /\ frames = <<>>
    /\ world_hit = [some |-> FALSE]
    /\ color = <<0, 0, 0>>
    /\ counts = [hit |-> 0, scatter |-> 0]
    /\ draws = <<>>
    /\ start = [op |-> "none"]
    /\ scat = [op |-> "none"]
    /\ dims = [W |-> 0, H |-> 0, TW |-> 0, TH |-> 0]
    /\ seed = 0
    /\ step_idx = 0
    /\ tiles = <<>>
    /\ tile_results = <<>>
    /\ next_result = 0
    /\ frame_buffer = <<>>
    /\ writes = <<>>
    /\ output = <<>>

CallSphereHit ==
    /\ pc = "ready"
    /\ \E k \in 1..Len(hittables) :
           out' = [op |-> "Sphere::hit", k |-> k,
                   hit |-> Sphere_hit(hittables[k], ray, t_min, t_max)]
    /\ pc' = "returned"
    /\ UNCHANGED <<ray, t_min, t_max, hittables, colorVars, tileVars>>

CallCollectionHit ==
    /\ pc = "ready"
    /\ out' = [op |-> "HittableCollection::hit",
               hit |-> HittableCollection_hit(hittables, ray, t_min, t_max)]
    /\ pc' = "returned"
    /\ UNCHANGED <<ray, t_min, t_max, hittables, colorVars, tileVars>>

NextHit == CallSphereHit \/ CallCollectionHit

SpecHit == InitHit /\ [][NextHit]_vars

----------------------------------------------------------------------------
(* Properties of the intersection queries                                  *)

SetMin(S) == CHOOSE x \in S : \A y \in S : x <= y

\* the members' own hits inside (t_min, t_max)
MemberHits ==
    { Sphere_hit(hittables[i], ray, t_min, t_max) : i \in 1..Len(hittables) }
MemberTs == { h.t : h \in { g \in MemberHits : g.some } }

Reordered(p) == [i \in 1..Len(hittables) |-> hittables[p[i]]]

\* C1: HittableCollection::hit returns None iff no member has a hit inside
\* (t_min, t_max); otherwise the t of the returned hit is the least t among the
\* members' own hits inside (t_min, t_max), and every reordering of the members
\* returns the same t.
C1_ClosestHit ==
    out.op = "HittableCollection::hit" =>
        /\ out.hit.some <=> MemberTs # {}
        /\ out.hit.some => out.hit.t = SetMin(MemberTs)
        /\ \A p \in Permutations(1..Len(hittables)) :
               LET other == HittableCollection_hit(Reordered(p), ray, t_min, t_max)
               IN  /\ other.some <=> out.hit.some
                   /\ other.some => other.t = out.hit.t

\* two members are hit at different t and the nearer one comes first
C1_Witness ==
    /\ out.op = "HittableCollection::hit"
    /\ Len(hittables) = 2
    /\ Sphere_hit(hittables[1], ray, t_min, t_max).some
    /\ Sphere_hit(hittables[2], ray, t_min, t_max).some
    /\ Sphere_hit(hittables[1], ray, t_min, t_max).t
           < Sphere_hit(hittables[2], ray, t_min, t_max).t
    /\ out.hit.t = Sphere_hit(hittables[1], ray, t_min, t_max).t

\* the roots of the member that was queried that lie strictly inside the interval
StrictlyInside(t) == t # NaN /\ t_min # NaN /\ t_max # NaN /\ t_min < t /\ t < t_max
RootsInside ==
    { t \in { Sphere_t_root1(hittables[out.k], ray),
              Sphere_t_root2(hittables[out.k], ray) } : StrictlyInside(t) }

\* C2: Sphere::hit returns no hit when the discriminant is negative; otherwise
\* it returns the hit at the smallest root strictly inside (t_min, t_max), and no
\* hit when neither root is strictly inside.
C2_SmallestRootInside ==
    out.op = "Sphere::hit" =>
        IF FLt(Sphere_discriminant(hittables[out.k], ray), F(0)) THEN ~out.hit.some
        ELSE IF RootsInside = {} THEN ~out.hit.some
        ELSE /\ out.hit.some
             /\ out.hit.t = SetMin(RootsInside)
             /\ out.hit.point = Ray_at(ray, SetMin(RootsInside))

\* the near root equals t_min and is rejected, the far root is returned
C2_Witness ==
    /\ out.op = "Sphere::hit"
    /\ Sphere_t_root1(hittables[out.k], ray) = t_min
    /\ out.hit.some
    /\ out.hit.t = Sphere_t_root2(hittables[out.k], ray)
    /\ out.hit.t # t_min

\* both roots strictly inside the interval: the near one is returned
C2_WitnessBoth ==
    /\ out.op = "Sphere::hit"
    /\ Cardinality(RootsInside) = 2
    /\ out.hit.some

\* C10: for a zero-length direction (a == 0) or a NaN discriminant Sphere::hit
\* returns None.
C10_DegenerateIsNone ==
    (/\ out.op = "Sphere::hit"
     /\ \/ Sphere_a(hittables[out.k], ray) = F(0)
        \/ IsNaN(Sphere_discriminant(hittables[out.k], ray)))
    => out.hit = None

\* a zero-length direction from a finite origin: the discriminant is 0, both
\* roots are 0/0
C10_Witness ==
    /\ out.op = "Sphere::hit"
    /\ Sphere_a(hittables[out.k], ray) = F(0)
    /\ Sphere_discriminant(hittables[out.k], ray) = F(0)
    /\ IsNaN(Sphere_t_root1(hittables[out.k], ray))
    /\ out.hit = None

\* a NaN discriminant out of finite input: half_b^2 and a*c both overflow
C10_WitnessNaN ==
    /\ out.op = "Sphere::hit"
    /\ \A i \in 1..3 : IsFinite(ray.origin[i])
    /\ IsNaN(Sphere_discriminant(hittables[out.k], ray))
    /\ out.hit = None

\* the geometric outward normal of the member that was queried, at the hit
OutwardNormal ==
    Vec3_div(Vec3_sub(out.hit.point, hittables[out.k].center), hittables[out.k].radius)

C13_WitnessNegativeRadius ==
    /\ out.op = "Sphere::hit"
    /\ out.hit.some
    /\ hittables[out.k].radius < F(0)
    /\ ~out.hit.front_face
    /\ FLt(dot_product(ray.direction, out.hit.normal), F(0))

----------------------------------------------------------------------------
(* Material::scatter (trace.rs, math.rs)                                   *)

LIGHT_BLUE == Vec3_new(500, 700, F(1))

DiaelectriMaterial_new(ref_idx) ==
    [kind |-> "Dielectric", albedo |-> WHITE, fuzziness |-> 0, ref_idx |-> ref_idx]

reflect_around_normal(v, normal) ==
    Vec3_sub(v, Vec3_mul_float(Vec3_mul_float(normal, F(2)), dot_product(v, normal)))

refract_around_normal(u, normal, etai_over_etat) ==
    LET cos_theta == dot_product(Vec3_neg(u), normal)
        r_out_parallel ==
            Vec3_mul_float(Vec3_add(u, Vec3_mul_float(normal, cos_theta)), etai_over_etat)
        r_out_perp ==
            Vec3_mul_float(normal,
                FNeg(FSqrt(FSub(F(1), length_squared(r_out_parallel)))))
    IN  Vec3_add(r_out_parallel, r_out_perp)

\* f64::powi(5)
powi5(x) == FMul(FMul(FMul(FMul(x, x), x), x), x)

schlick(cosine, ref_idx) ==
    LET q == FDiv(FSub(F(1), ref_idx), FAdd(F(1), ref_idx))
        r0 == FMul(q, q)
    IN  FAdd(r0, FMul(FSub(F(1), r0), powi5(FSub(F(1), cosine))))

\* scatter returns the Option<Ray> and, through the out parameter, the
\* attenuation; `unit` is the value of lambertian_random_in_unit_sphere()
Lambertian_scatter(m, r, h, unit) ==
    [some |-> TRUE, attenuation |-> m.albedo,
     ray |-> [origin |-> h.point, direction |-> Vec3_add(h.normal, unit)]]

Metal_fuzzed_direction(m, r, h, unit) ==
    Vec3_add(reflect_around_normal(r.direction, h.normal),
             Vec3_mul_float(unit, m.fuzziness))

Metal_scatter_keeps_grazing(m, r, h, unit) ==
    LET fuzzed_direction == Metal_fuzzed_direction(m, r, h, unit)
    IN  IF ~FLt(dot_product(fuzzed_direction, h.normal), F(0))
        THEN [some |-> TRUE, attenuation |-> m.albedo,
              ray |-> [origin |-> h.point, direction |-> fuzzed_direction]]
        ELSE [some |-> FALSE, attenuation |-> m.albedo]

Metal_scatter(m, r, h, unit) ==
    LET fuzzed_direction == Metal_fuzzed_direction(m, r, h, unit)
    IN  IF FGt(dot_product(fuzzed_direction, h.normal), F(0))
        THEN [some |-> TRUE, attenuation |-> m.albedo,
              ray |-> [origin |-> h.point, direction |-> fuzzed_direction]]
        ELSE [some |-> FALSE, attenuation |-> m.albedo]

\* `rnd` is the value of random_float()
Dielectric_etai_over_etat(m, h) ==
    IF h.front_face THEN FDiv(F(1), m.ref_idx) ELSE m.ref_idx

Dielectric_scatter(m, r, h, rnd) ==
    LET etai_over_etat == Dielectric_etai_over_etat(m, h)
        direction == to_unit_vector(r.direction)
        cos_thetha == FMin(dot_product(Vec3_neg(direction), h.normal), F(1))
        sin_thetha == FSqrt(FSub(F(1), FMul(cos_thetha, cos_thetha)))
        reflect_prob == schlick(cos_thetha, etai_over_etat)
        scattered_direction ==
            IF FGt(FMul(etai_over_etat, sin_thetha), F(1)) \/ FGt(reflect_prob, rnd)
            THEN reflect_around_normal(direction, h.normal)
            ELSE refract_around_normal(direction, h.normal, etai_over_etat)
    IN  [some |-> TRUE, attenuation |-> m.albedo,
         ray |-> [origin |-> h.point, direction |-> scattered_direction]]

\* dynamic dispatch of hit.material.scatter; draw = [unit, rnd]
Material_scatter(m, r, h, draw) ==
    IF m.kind = "Lambertian" THEN Lambertian_scatter(m, r, h, draw.unit)
    ELSE IF m.kind = "Metal" THEN Metal_scatter(m, r, h, draw.unit)
    ELSE Dielectric_scatter(m, r, h, draw.rnd)

----------------------------------------------------------------------------
(* get_ray_color (trace.rs), one action per step of the recursion          *)

\* t_min of the world.hit call: 0.001
HIT_T_MIN == 1

background(r) ==
    LET unit_direction == to_unit_vector(r.direction)
        t == FMul(FAdd(unit_direction[2], F(1)), 500)
    IN  Vec3_add(Vec3_mul_float(WHITE, FSub(F(1), t)), Vec3_mul_float(LIGHT_BLUE, t))

attenuate_ignored(attenuation, c) == c

\* attenuation * get_ray_color(&scattered_ray, world, depth - 1)
attenuate(attenuation, c) == Vec3_mul(attenuation, c)

exhausted_color == BLACK

recursive_depth_unchanged(d) == d

\* the depth argument of the recursive call
recursive_depth(d) == d - 1

MaxDepth == 3

\* lambertian_random_in_unit_sphere(): z = 0 with a = 0, pi, pi/2, and z = -1
UnitDraws == {V(1, 0, 0), V(-1, 0, 0), V(0, 1, 0), V(0, 0, -1)}
\* random_float(): [0, 1)
FloatDraws == {F(0), 500}
NoDraw == V(0, 0, 0)

RefIdxs == {1500, F(0), -1500}
ColorSpheres ==
    { Sphere_new(V(1, 0, 0), F(1), LambertianMaterial(GREY)),
      Sphere_new(V(1, 0, 0), F(1), MetalMaterial(Vec3_new(700, 600, 500), 500)),
      Sphere_new(V(-4, 0, 0), F(1), LambertianMaterial(Vec3_new(400, 200, 100))) }
    \cup { Sphere_new(V(1, 0, 0), F(1), DiaelectriMaterial_new(n)) : n \in RefIdxs }
ColorRays ==
    { [origin |-> V(-2, 0, 0), direction |-> V(1, 0, 0)],
      [origin |-> V(-2, 1, 0), direction |-> V(2, 0, 0)],
      [origin |-> V(-2, 0, 0), direction |-> V(0, 1, 0)] }

InitColor ==
    /\ pc = "build"
    /\ hittables = <<>>
    /\ ray = [origin |-> V(0, 0, 0), direction |-> V(0, 0, 0)]
    /\ t_min = 0
    /\ t_max = 0
    /\ out = [op |-> "none"]
    /\ depth = 0
    /\ frames = <<>>
    /\ world_hit = None
    /\ color = BLACK
    /\ counts = [hit |-> 0, scatter |-> 0]
    /\ draws = <<>>
    /\ start = [op |-> "none"]
    /\ scat = [op |-> "none"]
    /\ dims = [W |-> 0, H |-> 0, TW |-> 0, TH |-> 0]
    /\ seed = 0
    /\ step_idx = 0
    /\ tiles = <<>>
    /\ tile_results = <<>>
    /\ next_result = 0
    /\ frame_buffer = <<>>
    /\ writes = <<>>
    /\ output = <<>>

\* world.add(Box::new(Sphere::new(..)))
AddSphere ==
    /\ pc = "build"
    /\ Len(hittables) < MaxMembers
    /\ \E s \in ColorSpheres : hittables' = Append(hittables, s)
    /\ UNCHANGED <<pc, ray, hitVars, colorVars, tileVars>>

\* the outermost call get_ray_color(&ray, &world, depth)
CallGetRayColor ==
    /\ pc = "build"
    /\ \E r \in ColorRays, d \in 0..MaxDepth :
           /\ ray' = r
           /\ depth' = d
           /\ start' = [op |-> "get_ray_color", ray |-> r, depth |-> d]
    /\ pc' = "call"
    /\ UNCHANGED <<hittables, hitVars, frames, world_hit, color, counts, draws, scat,
                   tileVars>>

\* if depth == 0 { return BLACK; }
BudgetExhausted ==
    /\ pc = "call"
    /\ depth = 0
    /\ color' = exhausted_color
    /\ pc' = "return"
    /\ UNCHANGED <<ray, hittables, hitVars, depth, frames, world_hit, counts, draws,
                   start, scat, tileVars>>

\* world.hit(ray, 0.001, INFINITY)
HitWorld ==
    /\ pc = "call"
    /\ depth # 0
    /\ world_hit' = HittableCollection_hit(hittables, ray, HIT_T_MIN, PInf)
    /\ counts' = [counts EXCEPT !.hit = @ + 1]
    /\ pc' = IF world_hit'.some THEN "scatter" ELSE "miss"
    /\ UNCHANGED <<ray, hittables, hitVars, depth, frames, color, draws, start, scat,
                   tileVars>>

\* hit.material.scatter(&ray, &hit, &mut attenuation), then the recursive call or
\* return BLACK
Scatter(kindOf, drawSet) ==
    /\ pc = "scatter"
    /\ world_hit.material.kind = kindOf
    /\ \E draw \in drawSet :
         LET res == Material_scatter(world_hit.material, ray, world_hit, draw)
         IN  /\ scat' = [op |-> "scatter", material |-> world_hit.material,
                         ray |-> ray, hit |-> world_hit, draw |-> draw, res |-> res]
             /\ draws' = Append(draws, draw)
             /\ counts' = [counts EXCEPT !.scatter = @ + 1]
             /\ IF res.some
                THEN /\ frames' = Append(frames, [attenuation |-> res.attenuation,
                                                  depth |-> depth])
                     /\ ray' = res.ray
                     /\ depth' = recursive_depth(depth)
                     /\ pc' = "call"
                     /\ UNCHANGED color
                ELSE /\ color' = BLACK
                     /\ pc' = "return"
                     /\ UNCHANGED <<frames, ray, depth>>
    /\ UNCHANGED <<hittables, hitVars, world_hit, start, tileVars>>

ScatterLambertian ==
    Scatter("Lambertian", [unit : UnitDraws, rnd : {F(0)}])
ScatterMetal ==
    Scatter("Metal", [unit : UnitDraws, rnd : {F(0)}])
ScatterDielectric ==
    Scatter("Dielectric", [unit : {NoDraw}, rnd : FloatDraws])

\* nothing was hit: the background gradient
Background ==
    /\ pc = "miss"
    /\ color' = background(ray)
    /\ pc' = "return"
    /\ UNCHANGED <<ray, hittables, hitVars, depth, frames, world_hit, counts, draws,
                   start, scat, tileVars>>

\* a recursive call returns to its caller, which multiplies by the attenuation
ReturnToCaller ==
    /\ pc = "return"
    /\ frames # <<>>
    /\ color' = attenuate(frames[Len(frames)].attenuation, color)
    /\ depth' = frames[Len(frames)].depth
    /\ frames' = SubSeq(frames, 1, Len(frames) - 1)
    /\ UNCHANGED <<pc, ray, hittables, hitVars, world_hit, counts, draws, start, scat,
                   tileVars>>

\* the outermost call returns
ReturnColor ==
    /\ pc = "return"
    /\ frames = <<>>
    /\ pc' = "done"
    /\ UNCHANGED <<ray, hittables, hitVars, colorVars, tileVars>>

NextColor ==
    \/ AddSphere
    \/ CallGetRayColor
    \/ BudgetExhausted
    \/ HitWorld
    \/ ScatterLambertian
    \/ ScatterMetal
    \/ ScatterDielectric
    \/ Background
    \/ ReturnToCaller
    \/ ReturnColor

SpecColor == InitColor /\ [][NextColor]_vars

----------------------------------------------------------------------------
(* Properties of get_ray_color and Material::scatter                       *)

\* the reference definition of get_ray_color; the k-th scatter call of the
\* chain consumes draws[k]
RECURSIVE RefColor(_, _, _)
RefColor(r, d, k) ==
    IF d = 0 THEN Vec3_new(F(0), F(0), F(0))
    ELSE LET h == HittableCollection_hit(hittables, r, HIT_T_MIN, PInf)
         IN  IF h.some
             THEN LET sc == Material_scatter(h.material, r, h, draws[k])
                  IN  IF sc.some
                      THEN Vec3_mul(sc.attenuation, RefColor(sc.ray, d - 1, k + 1))
                      ELSE Vec3_new(F(0), F(0), F(0))
             ELSE LET y == to_unit_vector(r.direction)[2]
                      t == FMul(500, FAdd(y, F(1)))
                  IN  Vec3_add(Vec3_mul_float(Vec3_new(F(1), F(1), F(1)), FSub(F(1), t)),
                               Vec3_mul_float(Vec3_new(500, 700, F(1)), t))

\* C3: the value get_ray_color returns equals the reference definition: black
\* at depth 0; attenuation times the recursive value at depth - 1 when the world
\* is hit and the material scatters; black when it absorbs; the background
\* gradient when nothing is hit.
C3_EqualsReference ==
    pc = "done" => color = RefColor(start.ray, start.depth, 1)

\* two bounces, then the background (whose red channel is at least 0.5),
\* filtered by the attenuations
C3_Witness ==
    /\ pc = "done"
    /\ counts.scatter = 2
    /\ counts.hit = 3
    /\ \A i \in 1..3 : IsFinite(color[i]) /\ color[i] > 0
    /\ color[1] < 500
    /\ color = RefColor(start.ray, start.depth, 1)

C4_Bounded ==
    start.op = "get_ray_color" =>
        /\ counts.hit <= start.depth
        /\ counts.scatter <= start.depth
        /\ depth = start.depth - Len(frames)

\* the call in progress can always take its next step
C4_NoStall ==
    /\ pc = "scatter" =>
           world_hit.some /\ world_hit.material.kind \in {"Lambertian", "Metal", "Dielectric"}
    /\ pc = "miss" => ~world_hit.some
    /\ pc \in {"build", "call", "scatter", "miss", "return", "done"}

C4_DepthDecreases ==
    (pc = "scatter" /\ pc' = "call") => (depth > 0 /\ depth' = depth - 1)

\* a bound on the number of steps the outermost call still has to take
Rank ==
    IF pc = "call" THEN 3 * depth + Len(frames) + 2
    ELSE IF pc = "scatter" THEN 3 * depth + Len(frames) + 1
    ELSE IF pc = "miss" THEN Len(frames) + 2
    ELSE IF pc = "return" THEN Len(frames) + 1
    ELSE 0

C4_RankDecreases ==
    start.op = "get_ray_color" => (Rank' < Rank /\ Rank' >= 0)

\* C4: get_ray_color terminates (every step lowers a natural-number rank and
\* no step before the return is blocked), each recursive call is made with
\* depth - 1, and a call with depth d makes at most d world.hit queries and at
\* most d scatter calls.
C4_HardCutoff ==
    /\ [](C4_Bounded /\ C4_NoStall)
    /\ [][C4_DepthDecreases /\ C4_RankDecreases]_vars

\* every ray hits and every material scatters: the budget ends the chain
C4_Witness ==
    /\ pc = "done"
    /\ start.depth = MaxDepth
    /\ counts.hit = start.depth
    /\ counts.scatter = start.depth
    /\ color = BLACK

\* dot product of Metal's fuzzed reflected direction with the hit normal
ScatDot ==
    dot_product(
        Vec3_add(reflect_around_normal(scat.ray.direction, scat.hit.normal),
                 Vec3_mul_float(scat.draw.unit, scat.material.fuzziness)),
        scat.hit.normal)

C5_WitnessInward ==
    /\ scat.op = "scatter"
    /\ scat.material.kind = "Metal"
    /\ FLt(ScatDot, F(0))
    /\ ~scat.res.some

\* C9: a Dielectric material with a non-positive refractive index is rejected
\* at construction, so no sphere of the world carries one and scatter never
\* divides 1 by a zero ref_idx.
C9_NonPositiveRejected ==
    /\ \A i \in 1..Len(hittables) :
           hittables[i].material.kind = "Dielectric"
               => FGt(hittables[i].material.ref_idx, F(0))
    /\ (scat.op = "scatter" /\ scat.material.kind = "Dielectric" /\ scat.hit.front_face)
           => scat.material.ref_idx # F(0)

\* the second conjunct alone: scatter divides 1 by a zero ref_idx
C9_NoDivisionByZero ==
    (scat.op = "scatter" /\ scat.material.kind = "Dielectric" /\ scat.hit.front_face)
        => scat.material.ref_idx # F(0)

\* every dielectric of the world has a positive refractive index
PositiveRefIdx ==
    \A i \in 1..Len(hittables) :
        hittables[i].material.kind = "Dielectric"
            => FGt(hittables[i].material.ref_idx, F(0))

\* C11: every value get_ray_color returns has three non-NaN channels, for
\* every world of spheres of the three materials with finite albedos and every
\* sequence of draws, a Lambertian draw equal to the negated normal included
\* (worlds with a non-positive refractive index, the case of C9, set aside).
C11_NoNaNColor ==
    (pc = "done" /\ PositiveRefIdx) => \A i \in 1..3 : ~IsNaN(color[i])

\* the Lambertian draw is the negated normal, the scattered direction has
\* length zero, and the colour returned for the scattered ray is not NaN
C11_NoNaNAfterZeroDirection ==
    (/\ pc = "return"
     /\ scat.op = "scatter"
     /\ scat.material.kind = "Lambertian"
     /\ scat.draw.unit = Vec3_neg(scat.hit.normal)
     /\ ray.direction = V(0, 0, 0))
    => \A i \in 1..3 : ~IsNaN(color[i])

----------------------------------------------------------------------------
(* The tiled parallel sampler, frame reassembly and output (main.rs)       *)

MaxWidth == 4
MaxHeight == 2
MaxTiles == 4
MaxSeed == 1
\* threads of the rayon pool
NumWorkers == 2
\* num_steps
NumSteps == 2
SAMPLES_PER_PIXEL == 2

IMAGE_WIDTH == dims.W
IMAGE_HEIGHT == dims.H
TILE_WIDTH == dims.TW
TILE_HEIGHT == dims.TH

num_tiles == (IMAGE_WIDTH * IMAGE_HEIGHT) \div (TILE_WIDTH * TILE_HEIGHT)

tiles_per_row_from_height == IMAGE_HEIGHT \div TILE_HEIGHT

tiles_per_row == IMAGE_WIDTH \div TILE_WIDTH

col_start(tile_idx) == (tile_idx % tiles_per_row) * TILE_WIDTH
row_start(tile_idx) == (tile_idx \div tiles_per_row) * TILE_HEIGHT

\* the values random_float() returns: a function of the frame's seed, the
\* pixel, the sample and the call (k = 0 for u, 1 for v)
JitterDraws == <<F(0), 500, 999>>
random_float(i, j, s, k) == JitterDraws[((seed + i + 2 * j + s + k) % 3) + 1]

sample_u(i, j, s) == FDiv(FAdd(F(i), random_float(i, j, s, 0)), F(IMAGE_WIDTH - 1))
sample_v(i, j, s) == FDiv(FAdd(F(j), random_float(i, j, s, 1)), F(IMAGE_HEIGHT - 1))

\* get_ray_color(&camera.get_ray(u, v), &world, MAX_DEPTH): a function of the
\* sample (u, v) and of draws made further down; the sample stands for it
sample_color(u, v) == Vec3_new(u, v, F(0))

\* the loop over _s: pixel_color += ...
RECURSIVE accumulate(_, _, _)
accumulate(i, j, s) ==
    IF s = 0 THEN BLACK
    ELSE Vec3_add(accumulate(i, j, s - 1),
                  sample_color(sample_u(i, j, s - 1), sample_v(i, j, s - 1)))

\* pixel_color /= SAMPLES_PER_PIXEL
pixel_color(i, j) ==
    Vec3_mul_float(accumulate(i, j, SAMPLES_PER_PIXEL),
                   FDiv(F(1), F(SAMPLES_PER_PIXEL)))

\* a buffer slot: the colour, and (for the properties) the pixel it was
\* computed for
Slot(c, i, j) == [color |-> c, px |-> <<i, j>>]
Blank == Slot(BLACK, -1, -1)

\* vec![vec![BLACK; TILE_WIDTH]; TILE_HEIGHT]
new_tile_buffer == [tj \in 0..(TILE_HEIGHT - 1) |-> [ti \in 0..(TILE_WIDTH - 1) |-> Blank]]
\* vec![vec![BLACK; IMAGE_WIDTH]; IMAGE_HEIGHT]
new_frame_buffer == [j \in 0..(IMAGE_HEIGHT - 1) |-> [i \in 0..(IMAGE_WIDTH - 1) |-> Blank]]

\* the n-th pixel of the loops `for j in row_start..row_end { for i in
\* col_start..col_end`
tile_pixel_j(tile_idx, n) == row_start(tile_idx) + (n \div TILE_WIDTH)
tile_pixel_i(tile_idx, n) == col_start(tile_idx) + (n % TILE_WIDTH)

frame_buffer_i_by_row(tile_idx, i) == (tile_idx \div tiles_per_row) * TILE_WIDTH + i

\* the target of the reassembly loop
frame_buffer_i(tile_idx, i) == (tile_idx % tiles_per_row) * TILE_WIDTH + i
frame_buffer_j(tile_idx, j) == (tile_idx \div tiles_per_row) * TILE_HEIGHT + j

collect_ready_some_tile == \E t \in DOMAIN tiles : tiles[t].status = "done"

\* .collect::<Vec<_>>() returns once every closure of the map has returned
collect_ready == \A t \in DOMAIN tiles : tiles[t].status = "done"

PendingTiles ==
    [t \in 0..(num_tiles - 1) |-> [status |-> "pending", n |-> 0, buffer |-> new_tile_buffer]]

TileDims ==
    { d \in [W : 1..MaxWidth, H : 1..MaxHeight, TW : 1..MaxWidth, TH : 1..MaxHeight] :
        /\ d.TW <= d.W
        /\ d.TH <= d.H
        /\ (d.W * d.H) \div (d.TW * d.TH) <= MaxTiles }

InitTile ==
    /\ pc = "render"
    /\ dims \in TileDims
    /\ seed \in 0..MaxSeed
    /\ step_idx = 0
    /\ tiles = PendingTiles
    /\ tile_results = <<>>
    /\ next_result = 0
    /\ frame_buffer = <<>>
    /\ writes = <<>>
    /\ output = <<>>
    /\ hittables = <<>>
    /\ ray = [origin |-> V(0, 0, 0), direction |-> V(0, 0, 0)]
    /\ t_min = 0
    /\ t_max = 0
    /\ out = [op |-> "none"]
    /\ depth = 0
    /\ frames = <<>>
    /\ world_hit = None
    /\ color = BLACK
    /\ counts = [hit |-> 0, scatter |-> 0]
    /\ draws = <<>>
    /\ start = [op |-> "none"]
    /\ scat = [op |-> "none"]

\* a worker of the pool starts the closure for tile_idx
StartTile(tile_idx) ==
    /\ pc = "render"
    /\ tiles[tile_idx].status = "pending"
    /\ Cardinality({t \in DOMAIN tiles : tiles[t].status = "running"}) < NumWorkers
    /\ tiles' = [tiles EXCEPT ![tile_idx] =
                     [status |-> "running", n |-> 0, buffer |-> new_tile_buffer]]
    /\ UNCHANGED <<pc, dims, seed, step_idx, tile_results, next_result, frame_buffer,
                   writes, output, ray, hittables, hitVars, colorVars>>

\* one iteration of the pixel loops of the closure
RenderPixel(tile_idx) ==
    /\ pc = "render"
    /\ tiles[tile_idx].status = "running"
    /\ tiles[tile_idx].n < TILE_WIDTH * TILE_HEIGHT
    /\ LET j == tile_pixel_j(tile_idx, tiles[tile_idx].n)
           i == tile_pixel_i(tile_idx, tiles[tile_idx].n)
           tile_j == j - row_start(tile_idx)
           tile_i == i - col_start(tile_idx)
       IN  IF tile_j \in 0..(TILE_HEIGHT - 1) /\ tile_i \in 0..(TILE_WIDTH - 1)
           THEN /\ tiles' = [tiles EXCEPT
                                ![tile_idx].buffer[tile_j][tile_i] =
                                    Slot(pixel_color(i, j), i, j),
                                ![tile_idx].n = @ + 1]
                /\ UNCHANGED pc
           ELSE /\ pc' = "panic"
                /\ UNCHANGED tiles
    /\ UNCHANGED <<dims, seed, step_idx, tile_results, next_result, frame_buffer,
                   writes, output, ray, hittables, hitVars, colorVars>>

\* the closure returns (tile_idx, tile_buffer)
FinishTile(tile_idx) ==
    /\ pc = "render"
    /\ tiles[tile_idx].status = "running"
    /\ tiles[tile_idx].n = TILE_WIDTH * TILE_HEIGHT
    /\ tiles' = [tiles EXCEPT ![tile_idx].status = "done"]
    /\ UNCHANGED <<pc, dims, seed, step_idx, tile_results, next_result, frame_buffer,
                   writes, output, ray, hittables, hitVars, colorVars>>

\* collect returns the results in tile order; the frame buffer is allocated
Collect ==
    /\ pc = "render"
    /\ collect_ready
    /\ tile_results' = [k \in 1..num_tiles |->
                            [tile_idx |-> k - 1, tile_buffer |-> tiles[k - 1].buffer]]
    /\ next_result' = 1
    /\ frame_buffer' = new_frame_buffer
    /\ writes' = [j \in 0..(IMAGE_HEIGHT - 1) |-> [i \in 0..(IMAGE_WIDTH - 1) |-> 0]]
    /\ pc' = "reassemble"
    /\ UNCHANGED <<dims, seed, step_idx, tiles, output, ray, hittables, hitVars,
                   colorVars>>

\* one iteration of `for (tile_idx, tile_buffer) in tile_results`
ReassembleTile ==
    /\ pc = "reassemble"
    /\ next_result <= Len(tile_results)
    /\ LET tile_idx == tile_results[next_result].tile_idx
           tile_buffer == tile_results[next_result].tile_buffer
           fi(i) == frame_buffer_i(tile_idx, i)
           fj(j) == frame_buffer_j(tile_idx, j)
           Covered(j, i) ==
               /\ j - fj(0) \in 0..(TILE_HEIGHT - 1)
               /\ i - fi(0) \in 0..(TILE_WIDTH - 1)
       IN  IF /\ \A j \in 0..(TILE_HEIGHT - 1) : fj(j) \in 0..(IMAGE_HEIGHT - 1)
              /\ \A i \in 0..(TILE_WIDTH - 1) : fi(i) \in 0..(IMAGE_WIDTH - 1)
           THEN /\ frame_buffer' =
                       [j \in 0..(IMAGE_HEIGHT - 1) |-> [i \in 0..(IMAGE_WIDTH - 1) |->
                           IF Covered(j, i) THEN tile_buffer[j - fj(0)][i - fi(0)]
                           ELSE frame_buffer[j][i]]]
                /\ writes' =
                       [j \in 0..(IMAGE_HEIGHT - 1) |-> [i \in 0..(IMAGE_WIDTH - 1) |->
                           IF Covered(j, i) THEN writes[j][i] + 1 ELSE writes[j][i]]]
                /\ next_result' = next_result + 1
                /\ UNCHANGED pc
           ELSE /\ pc' = "panic"
                /\ UNCHANGED <<frame_buffer, writes, next_result>>
    /\ UNCHANGED <<dims, seed, step_idx, tiles, tile_results, output, ray, hittables,
                   hitVars, colorVars>>

\* the reassembly loop ends
ReassemblyDone ==
    /\ pc = "reassemble"
    /\ next_result > Len(tile_results)
    /\ pc' = "write"
    /\ UNCHANGED <<ray, hittables, hitVars, colorVars, tileVars>>

\* the colours handed to write_pixel: rows from the last to the first; then the
\* next frame starts, or main ends
WriteOutput ==
    /\ pc = "write"
    /\ output' = [n \in 1..(IMAGE_WIDTH * IMAGE_HEIGHT) |->
                     frame_buffer[IMAGE_HEIGHT - 1 - ((n - 1) \div IMAGE_WIDTH)]
                                 [(n - 1) % IMAGE_WIDTH].color]
    /\ IF step_idx + 1 < NumSteps
       THEN /\ step_idx' = step_idx + 1
            /\ tiles' = PendingTiles
            /\ pc' = "render"
       ELSE /\ pc' = "finished"
            /\ UNCHANGED <<step_idx, tiles>>
    /\ UNCHANGED <<dims, seed, tile_results, next_result, frame_buffer, writes, ray,
                   hittables, hitVars, colorVars>>

NextTile ==
    \/ \E t \in DOMAIN tiles : StartTile(t)
    \/ \E t \in DOMAIN tiles : RenderPixel(t)
    \/ \E t \in DOMAIN tiles : FinishTile(t)
    \/ Collect
    \/ ReassembleTile
    \/ ReassemblyDone
    \/ WriteOutput

SpecTile == InitTile /\ [][NextTile]_vars

----------------------------------------------------------------------------
(* Properties of the tiled sampler                                         *)

Divides == IMAGE_WIDTH % TILE_WIDTH = 0 /\ IMAGE_HEIGHT % TILE_HEIGHT = 0

Pixels == (0..(IMAGE_WIDTH - 1)) \X (0..(IMAGE_HEIGHT - 1))

\* the tiles whose pixel loops visit pixel (i, j)
TilesCovering(i, j) ==
    { t \in 0..(num_tiles - 1) :
        /\ i - col_start(t) \in 0..(TILE_WIDTH - 1)
        /\ j - row_start(t) \in 0..(TILE_HEIGHT - 1) }

\* C6: when the tile dimensions divide the image dimensions, every pixel is
\* covered by exactly one tile, no index leaves the tile buffer or the frame
\* buffer, no frame-buffer slot is assigned twice, and once reassembly is over
\* every slot was assigned exactly once, with the pixel computed for its own
\* position.
C6_TilesPartition ==
    Divides =>
        /\ \A p \in Pixels : Cardinality(TilesCovering(p[1], p[2])) = 1
        /\ pc # "panic"
        /\ pc \in {"reassemble", "write"} =>
               \A p \in Pixels : writes[p[2]][p[1]] <= 1
        /\ pc = "write" =>
               \A p \in Pixels :
                   /\ writes[p[2]][p[1]] = 1
                   /\ frame_buffer[p[2]][p[1]].px = p

\* a frame of several tiles, wider than high in tiles, is reassembled
C6_Witness ==
    /\ pc = "write"
    /\ Divides
    /\ num_tiles = 4
    /\ tiles_per_row = 2
    /\ TILE_WIDTH = 2
    /\ \A p \in Pixels : writes[p[2]][p[1]] = 1

\* the colour of pixel (i, j) in a single sweep over all pixels with the same
\* draws
RECURSIVE SweepSum(_, _, _)
SweepSum(i, j, s) ==
    IF s = 0 THEN <<0, 0, 0>>
    ELSE LET u == FDiv(FAdd(F(i), random_float(i, j, s - 1, 0)), F(dims.W - 1))
             v == FDiv(FAdd(F(j), random_float(i, j, s - 1, 1)), F(dims.H - 1))
         IN  Vec3_add(SweepSum(i, j, s - 1), <<u, v, 0>>)
SweepFrame ==
    [j \in 0..(dims.H - 1) |-> [i \in 0..(dims.W - 1) |->
        Vec3_mul_float(SweepSum(i, j, SAMPLES_PER_PIXEL),
                       FDiv(F(1), F(SAMPLES_PER_PIXEL)))]]

\* C7: when the tile dimensions divide the image dimensions, the reassembled
\* frame buffer equals, pixel for pixel, the frame of a single non-tiled sweep
\* with the same per-pixel draws, in whatever order the workers ran the tiles.
C7_EqualsSweep ==
    (Divides /\ pc = "write") =>
        \A p \in Pixels : frame_buffer[p[2]][p[1]].color = SweepFrame[p[2]][p[1]]

\* a square frame of four tiles, the last tile finished first
C7_Witness ==
    /\ pc = "write"
    /\ Divides
    /\ num_tiles = 4
    /\ tiles_per_row = 2
    /\ IMAGE_HEIGHT = 2
    /\ \A p \in Pixels : frame_buffer[p[2]][p[1]].color = SweepFrame[p[2]][p[1]]
    /\ \E p, q \in Pixels : frame_buffer[p[2]][p[1]].color # frame_buffer[q[2]][q[1]].color

AllTilesDone ==
    \A t \in DOMAIN tiles :
        tiles[t].status = "done" /\ tiles[t].n = TILE_WIDTH * TILE_HEIGHT

C8_AfterJoin ==
    pc \in {"reassemble", "write"} =>
        /\ AllTilesDone
        /\ \A k \in 1..Len(tile_results) :
               tile_results[k].tile_buffer = tiles[tile_results[k].tile_idx].buffer

C8_HandOver ==
    /\ (pc = "render" /\ pc' # "render") => (AllTilesDone /\ pc' = "reassemble")
    /\ output' # output =>
           /\ pc = "write"
           /\ AllTilesDone
           /\ next_result > Len(tile_results)

\* C8: within a frame, reassembly and the output write start only after every
\* tile has rendered all its pixels; the frame buffer handed to the writer holds
\* the buffers of finished tiles only.
C8_Barrier == []C8_AfterJoin /\ [][C8_HandOver]_vars

\* the second frame is handed over, after tiles finished in the order 1, 0
C8_Witness ==
    /\ pc = "finished"
    /\ step_idx = 1
    /\ num_tiles >= 2
    /\ AllTilesDone
    /\ output # <<>>

\* two tiles are rendered concurrently
C8_WitnessConcurrent ==
    /\ pc = "render"
    /\ \E t1, t2 \in DOMAIN tiles :
           /\ t1 < t2
           /\ tiles[t1].status = "running" /\ tiles[t1].n = 0
           /\ tiles[t2].status = "done"

\* the pixels some closure has rendered so far
RenderedPixels ==
    { tiles[t].buffer[tj][ti].px :
        t \in DOMAIN tiles, tj \in 0..(TILE_HEIGHT - 1), ti \in 0..(TILE_WIDTH - 1) }
    \ {Blank.px}

InUnitInterval(x) == FLe(F(0), x) /\ FLe(x, F(1))

\* C12: for every pixel (i, j) of the image (more than one column and row,
\* so that the divisors are not zero) and every sample, the coordinates
\* u = (i + random_float()) / (IMAGE_WIDTH - 1) and
\* v = (j + random_float()) / (IMAGE_HEIGHT - 1) passed to Camera::get_ray lie
\* in [0, 1].
C12_UnitCoordinates ==
    (IMAGE_WIDTH > 1 /\ IMAGE_HEIGHT > 1) =>
        \A px \in RenderedPixels, s \in 0..(SAMPLES_PER_PIXEL - 1) :
            /\ InUnitInterval(sample_u(px[1], px[2], s))
            /\ InUnitInterval(sample_v(px[1], px[2], s))

====
